---- MODULE Spec2Model ----
(***************************************************************************)
(* Model of bin/powerprofile-tray.py: the tray controller that shows the   *)
(* active power profile and lets the user force one.                       *)
(*                                                                         *)
(* A Python str is a sequence of tokens: a token is either a whitespace    *)
(* character or a maximal block of non-whitespace characters, so that      *)
(* "balanced\n" is <<"balanced", "\n">> and str.strip() has work to do.    *)
(* A file is a record: ex (the path exists), ok (it can be opened and      *)
(* read), data (its content).                                              *)
(*                                                                         *)
(* set_state and toggle_notifications are modelled system call by system   *)
(* call, because the automation script runs concurrently with the tray and *)
(* may act between any two of them.  A callback's reads (get_profile,      *)
(* is_auto, notifications_enabled) are taken in one step.                  *)
(***************************************************************************)
EXTENDS Naturals, Sequences, FiniteSets

VARIABLES
    stateFile,   \* STATE_FILE, ~/.cache/powerprofile.state
    lastFile,    \* LAST_FILE, ~/.cache/powerprofile.last
    override,    \* OVERRIDE, ~/.cache/powerprofile.override
    silent,      \* SILENT exists
    live,        \* what `powerprofilesctl get` does right now
    menu,        \* the Gtk.Menu on display: the check marks of its items
    label,       \* the indicator's label text
    shown,       \* the (profile, auto, notify) the display was last drawn from
    last,        \* Tray._last_snapshot
    pc,          \* where the GTK main thread is
    cb,          \* the callback it is running
    mode,        \* set_state's argument
    enable,      \* toggle_notifications' argument
    caught,      \* the running call's `except Exception` swallowed something
    cmds,        \* `powerprofilesctl set` invocations of the running callback
    envN,        \* changes made so far from outside the tray
    clickN       \* menu items clicked so far

vars == <<stateFile, lastFile, override, silent, live, menu, label, shown, last,
          pc, cb, mode, enable, caught, cmds, envN, clickN>>

envVars == <<stateFile, lastFile, override, silent, live>>

uiVars == <<menu, label, shown, last>>

----------------------------------------------------------------------------
(* Strings and files *)

Str(w) == <<w>>

AUTO == Str("auto")

\* The keys of PROFILE_NAMES, which are also the modes of the manual picks.
PROFILES == {Str("power-saver"), Str("balanced"), Str("performance")}

Whitespace == {" ", "\n"}

RECURSIVE LStrip(_)
LStrip(s) == IF s # <<>> /\ Head(s) \in Whitespace THEN LStrip(Tail(s)) ELSE s

RECURSIVE RStrip(_)
RStrip(s) ==
    IF s # <<>> /\ s[Len(s)] \in Whitespace
    THEN RStrip(SubSeq(s, 1, Len(s) - 1))
    ELSE s

\* str.strip()
Strip(s) == RStrip(LStrip(s))

Absent == [ex |-> FALSE, ok |-> TRUE, data |-> <<>>]
Unreadable == [ex |-> TRUE, ok |-> FALSE, data |-> <<>>]
File(d) == [ex |-> TRUE, ok |-> TRUE, data |-> d]

\* Outcomes of running `powerprofilesctl get` through the shell.
LiveOut(p) == [spawn |-> TRUE, out |-> p \o <<"\n">>]
LiveNothing == [spawn |-> TRUE, out |-> <<>>]
LiveNoSpawn == [spawn |-> FALSE, out |-> <<>>]

\* A Python value or a raised exception.
Val(v) == [raised |-> FALSE, val |-> v]
Raised == [raised |-> TRUE, val |-> <<>>]

\* str | None
Some(v) == [some |-> TRUE, val |-> v]
None == [some |-> FALSE, val |-> <<>>]

----------------------------------------------------------------------------
(* The read path *)

\* One turn of read_cached_profile's loop: the stripped content, or None when
\* the path does not exist, cannot be read (the exception is passed over) or
\* strips to the empty string.
TryPath(f) ==
    IF f.ex /\ f.ok /\ Strip(f.data) # <<>> THEN Some(Strip(f.data)) ELSE None

\* read_cached_profile with the two paths tried in the wrong order.
ReadCachedLastFirst ==
    LET first == TryPath(lastFile)
    IN  IF first.some THEN first ELSE TryPath(stateFile)

read_cached_profile ==
    LET first == TryPath(stateFile)
    IN  IF first.some THEN first ELSE TryPath(lastFile)

\* sh("powerprofilesctl get"): subprocess.run is not inside a try, so a failure
\* to start the shell propagates; otherwise the stripped stdout.
sh == IF live.spawn THEN Val(Strip(live.out)) ELSE Raised

read_live_profile ==
    IF sh.raised THEN Raised
    ELSE IF sh.val # <<>> THEN sh ELSE Val(Str("balanced"))

get_profile ==
    IF read_cached_profile.some
    THEN Val(read_cached_profile.val)
    ELSE read_live_profile

\* is_auto that takes an empty override file for no override.
IsAutoUnlessEmpty == ~override.ex \/ override.data = <<>>

is_auto == ~override.ex

notifications_enabled == ~silent

\* str.title() on the tokens the model uses.
TitleTok(t) ==
    CASE t = "power-saver" -> "Power-Saver"
      [] t = "balanced" -> "Balanced"
      [] t = "performance" -> "Performance"
      [] t = "turbo" -> "Turbo"
      [] OTHER -> t

Title(s) == [i \in DOMAIN s |-> TitleTok(s[i])]

\* PROFILE_NAMES.get(profile, profile.title())
ProfileName(profile) ==
    CASE profile = Str("power-saver") -> Str("Power Saver")
      [] profile = Str("balanced") -> Str("Balanced")
      [] profile = Str("performance") -> Str("Performance")
      [] OTHER -> Title(profile)

\* label_for that title-cases the identifier instead of looking it up.
LabelForTitled(profile, auto) ==
    <<IF auto THEN "A" ELSE "M", ": ">> \o Title(profile)

label_for(profile, auto) ==
    <<IF auto THEN "A" ELSE "M", ": ">> \o ProfileName(profile)

\* The check marks build_menu gives the items, from the values it read.
MenuOf(prof, auto, notify) ==
    [auto  |-> auto,
     picks |-> {m \in PROFILES : (prof = m) /\ ~auto},
     notif |-> notify]

\* build_menu: the new menu and the label, or nothing when get_profile raises.
build_menu ==
    /\ ~get_profile.raised
    /\ menu' = MenuOf(get_profile.val, is_auto, notifications_enabled)
    /\ label' = label_for(get_profile.val, is_auto)
    /\ shown' = <<get_profile.val, is_auto, notifications_enabled>>

----------------------------------------------------------------------------
(* The environment: the files the automation script writes, the daemon *)

\* What the automation script leaves in powerprofile.state and
\* powerprofile.last while the tray runs: nothing, or a state file that cannot
\* be read beside a last-applied file.
CachePairs ==
    {<<Absent, Absent>>, <<Unreadable, File(<<" ", "power-saver">>)>>}

\* Every shape of cache file get_profile tells apart: missing, unreadable,
\* empty, blank, a profile with and without surrounding whitespace, a name
\* that is no profile.
CacheInputs ==
    {Absent, Unreadable, File(<<>>), File(<<"\n">>),
     File(<<"performance", "\n">>), File(<<" ", "power-saver">>),
     File(<<"turbo">>)}

LiveVals == {LiveOut(p) : p \in PROFILES} \cup {LiveNothing, LiveNoSpawn}

NoSnapshot == <<>>

\* The model follows the tray through MaxEnv outside changes and MaxClicks
\* clicks; the timer ticks without bound.
MaxEnv == 2

MaxClicks == 2

EnvStep ==
    /\ envN < MaxEnv
    /\ envN' = envN + 1
    /\ UNCHANGED <<uiVars, pc, cb, mode, enable, caught, cmds, clickN>>

Click ==
    /\ clickN < MaxClicks
    /\ clickN' = clickN + 1
    /\ UNCHANGED <<envVars, label, shown, last, caught, cmds, envN>>

\* A step of the tray that is not a click.
TrayStep == UNCHANGED <<envN, clickN>>

Idle ==
    /\ pc = "idle" /\ cb = "none" /\ mode = <<>> /\ enable = FALSE
    /\ caught = FALSE /\ cmds = <<>>

\* The callback is over: its locals are gone.
Return ==
    /\ pc' = "idle" /\ cb' = "none" /\ mode' = <<>> /\ enable' = FALSE
    /\ caught' = FALSE /\ cmds' = <<>>

\* An exception left the callback: the main loop reports it and goes on.
Throw ==
    /\ pc' = "uncaught"
    /\ UNCHANGED <<cb, mode, enable, caught, cmds>>

\* Tray.__init__ has run: the menu and the label are those of the files found
\* at startup, no snapshot is remembered, the timer is armed.
Constructed ==
    /\ ~get_profile.raised
    /\ menu = MenuOf(get_profile.val, is_auto, notifications_enabled)
    /\ label = label_for(get_profile.val, is_auto)
    /\ shown = <<get_profile.val, is_auto, notifications_enabled>>
    /\ last = NoSnapshot
    /\ Idle
    /\ envN = 0
    /\ clickN = 0

\* Startup with no cached profile, the daemon answering "balanced", and
\* possibly an override left by an earlier run.
Init ==
    /\ stateFile = Absent
    /\ lastFile = Absent
    /\ override \in {Absent} \cup {File(m) : m \in PROFILES}
    /\ silent = FALSE
    /\ live = LiveOut(Str("balanced"))
    /\ Constructed

EnvCache ==
    /\ \E c \in CachePairs :
          /\ stateFile' = c[1]
          /\ lastFile' = c[2]
    /\ UNCHANGED <<override, silent, live>>
    /\ EnvStep

EnvLive ==
    /\ \E v \in LiveVals : live' = v
    /\ UNCHANGED <<stateFile, lastFile, override, silent>>
    /\ EnvStep

\* The override is cleared from outside the tray.
EnvRemoveOverride ==
    /\ override.ex
    /\ override' = Absent
    /\ UNCHANGED <<stateFile, lastFile, silent, live>>
    /\ EnvStep

EnvRemoveSilent ==
    /\ silent
    /\ silent' = FALSE
    /\ UNCHANGED <<stateFile, lastFile, override, live>>
    /\ EnvStep

----------------------------------------------------------------------------
(* set_state(mode), one system call at a time *)

SetMakedirs ==
    /\ pc = "ss_makedirs"
    /\ \E ok \in BOOLEAN :
          IF ok
          THEN /\ pc' = IF mode = AUTO THEN "ss_exists" ELSE "ss_open"
               /\ caught' = caught
          ELSE /\ pc' = "ss_ret"
               /\ caught' = TRUE
    /\ UNCHANGED <<envVars, uiVars, cb, mode, enable, cmds>>
    /\ TrayStep

\* set_state("auto") that never gets to os.remove.
SetExistsSkip ==
    /\ pc = "ss_exists"
    /\ pc' = "ss_ret"
    /\ UNCHANGED <<envVars, uiVars, cb, mode, enable, caught, cmds>>
    /\ TrayStep

SetExists ==
    /\ pc = "ss_exists"
    /\ pc' = IF override.ex THEN "ss_remove" ELSE "ss_ret"
    /\ UNCHANGED <<envVars, uiVars, cb, mode, enable, caught, cmds>>
    /\ TrayStep

\* os.remove(OVERRIDE): raises when the file is gone or cannot be removed.
SetRemove ==
    /\ pc = "ss_remove"
    /\ \E ok \in BOOLEAN :
          IF ok /\ override.ex
          THEN /\ override' = Absent
               /\ caught' = caught
          ELSE /\ override' = override
               /\ caught' = TRUE
    /\ pc' = "ss_ret"
    /\ UNCHANGED <<stateFile, lastFile, silent, live,
                   uiVars, cb, mode, enable, cmds>>
    /\ TrayStep

\* open(OVERRIDE, "w") creates the file or truncates it.
SetOpen ==
    /\ pc = "ss_open"
    /\ \E ok \in BOOLEAN :
          IF ok
          THEN /\ override' = File(<<>>)
               /\ pc' = "ss_write"
               /\ caught' = caught
          ELSE /\ override' = override
               /\ pc' = "ss_ret"
               /\ caught' = TRUE
    /\ UNCHANGED <<stateFile, lastFile, silent, live,
                   uiVars, cb, mode, enable, cmds>>
    /\ TrayStep

\* set_state that writes the mode as a line, newline included.
SetWriteLine ==
    /\ pc = "ss_write"
    /\ \E ok \in BOOLEAN :
          IF ok
          THEN /\ override' =
                    IF override.ex THEN File(mode \o <<"\n">>) ELSE override
               /\ pc' = "ss_run"
               /\ caught' = caught
          ELSE /\ override' = override
               /\ pc' = "ss_ret"
               /\ caught' = TRUE
    /\ UNCHANGED <<stateFile, lastFile, silent, live, uiVars>>
    /\ UNCHANGED <<cb, mode, enable, cmds>>
    /\ TrayStep

\* f.write(mode) and the close that flushes it.  The bytes go to the file that
\* was opened: if the path was removed meanwhile, the path stays absent.
SetWrite ==
    /\ pc = "ss_write"
    /\ \E ok \in BOOLEAN :
          IF ok
          THEN /\ override' = IF override.ex THEN File(mode) ELSE override
               /\ pc' = "ss_run"
               /\ caught' = caught
          ELSE /\ override' = override
               /\ pc' = "ss_ret"
               /\ caught' = TRUE
    /\ UNCHANGED <<stateFile, lastFile, silent, live,
                   uiVars, cb, mode, enable, cmds>>
    /\ TrayStep

\* run(["powerprofilesctl", "set", mode]): raises when the command cannot be
\* started, which is the case only while `powerprofilesctl get` prints nothing
\* either; otherwise the daemon applies the profile (only if it is answering)
\* or refuses, and the exit status is not looked at.
SetRun ==
    /\ pc = "ss_run"
    /\ \E r \in {"applied", "refused", "raise"} :
          /\ r = "applied" => live.spawn /\ live.out # <<>>
          /\ r = "refused" => live.spawn
          /\ r = "raise" => live.out = <<>>
          /\ live' = IF r = "applied" THEN LiveOut(mode) ELSE live
          /\ cmds' = IF r = "raise" THEN cmds ELSE Append(cmds, mode)
          /\ caught' = IF r = "raise" THEN TRUE ELSE caught
    /\ pc' = "ss_ret"
    /\ UNCHANGED <<stateFile, lastFile, override, silent,
                   uiVars, cb, mode, enable>>
    /\ TrayStep

----------------------------------------------------------------------------
(* toggle_notifications(enable), one system call at a time *)

\* toggle_notifications with the test of `enable` inverted.
ToggleMakedirsInverted ==
    /\ pc = "tn_makedirs"
    /\ \E ok \in BOOLEAN :
          IF ok
          THEN /\ pc' = IF enable THEN "tn_open" ELSE "tn_exists"
               /\ caught' = caught
          ELSE /\ pc' = "tn_ret"
               /\ caught' = TRUE
    /\ UNCHANGED <<envVars, uiVars, cb, mode, enable, cmds>>
    /\ TrayStep

ToggleMakedirs ==
    /\ pc = "tn_makedirs"
    /\ \E ok \in BOOLEAN :
          IF ok
          THEN /\ pc' = IF enable THEN "tn_exists" ELSE "tn_open"
               /\ caught' = caught
          ELSE /\ pc' = "tn_ret"
               /\ caught' = TRUE
    /\ UNCHANGED <<envVars, uiVars, cb, mode, enable, cmds>>
    /\ TrayStep

ToggleExists ==
    /\ pc = "tn_exists"
    /\ pc' = IF silent THEN "tn_remove" ELSE "tn_ret"
    /\ UNCHANGED <<envVars, uiVars, cb, mode, enable, caught, cmds>>
    /\ TrayStep

ToggleRemove ==
    /\ pc = "tn_remove"
    /\ \E ok \in BOOLEAN :
          IF ok /\ silent
          THEN /\ silent' = FALSE
               /\ caught' = caught
          ELSE /\ silent' = silent
               /\ caught' = TRUE
    /\ pc' = "tn_ret"
    /\ UNCHANGED <<stateFile, lastFile, override, live,
                   uiVars, cb, mode, enable, cmds>>
    /\ TrayStep

\* open(SILENT, "w") creates the file; f.write("1") fills it.  Only the file's
\* existence is ever read, so a failed write still leaves the file behind.
ToggleOpen ==
    /\ pc = "tn_open"
    /\ \E ok \in BOOLEAN :
          IF ok
          THEN /\ silent' = TRUE
               /\ pc' = "tn_write"
               /\ caught' = caught
          ELSE /\ silent' = silent
               /\ pc' = "tn_ret"
               /\ caught' = TRUE
    /\ UNCHANGED <<stateFile, lastFile, override, live,
                   uiVars, cb, mode, enable, cmds>>
    /\ TrayStep

ToggleWrite ==
    /\ pc = "tn_write"
    /\ \E ok \in BOOLEAN : caught' = IF ok THEN caught ELSE TRUE
    /\ pc' = "tn_ret"
    /\ UNCHANGED <<envVars, uiVars, cb, mode, enable, cmds>>
    /\ TrayStep

----------------------------------------------------------------------------
(* The menu callbacks and the timer.  A click first toggles the check mark *)
(* of the item (Gtk.CheckMenuItem) and then emits "activate".              *)

\* _on_auto, up to the call of set_state.
ClickAuto ==
    /\ Idle
    /\ menu' = [menu EXCEPT !.auto = ~menu.auto]
    /\ cb' = "auto"
    /\ mode' = IF menu'.auto THEN AUTO ELSE Str("balanced")
    /\ pc' = "ss_makedirs"
    /\ UNCHANGED enable
    /\ Click

\* _on_pick: an item that the click turned off returns at once.
ClickPick ==
    /\ Idle
    /\ \E m \in PROFILES :
          IF m \in menu.picks
          THEN /\ menu' = [menu EXCEPT !.picks = menu.picks \ {m}]
               /\ UNCHANGED <<pc, cb, mode>>
          ELSE /\ menu' = [menu EXCEPT !.picks = menu.picks \cup {m}]
               /\ cb' = "pick"
               /\ mode' = m
               /\ pc' = "ss_makedirs"
    /\ UNCHANGED enable
    /\ Click

\* _on_notify, up to the call of toggle_notifications.
ClickNotify ==
    /\ Idle
    /\ menu' = [menu EXCEPT !.notif = ~menu.notif]
    /\ cb' = "notify"
    /\ enable' = menu'.notif
    /\ pc' = "tn_makedirs"
    /\ UNCHANGED mode
    /\ Click

\* _on_auto after set_state returned: build_menu.
OnAutoBuild ==
    /\ pc = "ss_ret" /\ cb = "auto"
    /\ IF get_profile.raised
       THEN Throw /\ UNCHANGED <<menu, label, shown>>
       ELSE build_menu /\ Return
    /\ UNCHANGED <<envVars, last>>
    /\ TrayStep

\* _on_pick after set_state returned: the other picks are turned off (their
\* "activate" handlers return at once), then build_menu.
OnPickBuild ==
    /\ pc = "ss_ret" /\ cb = "pick"
    /\ IF get_profile.raised
       THEN /\ Throw
            /\ menu' = [menu EXCEPT !.picks = {mode}]
            /\ UNCHANGED <<label, shown>>
       ELSE build_menu /\ Return
    /\ UNCHANGED <<envVars, last>>
    /\ TrayStep

\* _on_notify after toggle_notifications returned: build_menu.
OnNotifyBuild ==
    /\ pc = "tn_ret" /\ cb = "notify"
    /\ IF get_profile.raised
       THEN Throw /\ UNCHANGED <<menu, label, shown>>
       ELSE build_menu /\ Return
    /\ UNCHANGED <<envVars, last>>
    /\ TrayStep

\* _tick: redraw when the snapshot is not the remembered one.
Tick ==
    /\ Idle
    /\ IF get_profile.raised
       THEN /\ pc' = "uncaught"
            /\ UNCHANGED <<uiVars>>
       ELSE LET snap == <<get_profile.val, is_auto, notifications_enabled>>
            IN  IF snap # last
                THEN /\ build_menu
                     /\ last' = snap
                     /\ pc' = pc
                ELSE UNCHANGED <<uiVars, pc>>
    /\ UNCHANGED <<envVars, cb, mode, enable, caught, cmds>>
    /\ TrayStep

\* The exception has been reported; the main loop dispatches again.
Resume ==
    /\ pc = "uncaught"
    /\ Return
    /\ UNCHANGED <<envVars, uiVars>>
    /\ TrayStep

Next ==
    \/ EnvCache \/ EnvLive \/ EnvRemoveOverride \/ EnvRemoveSilent
    \/ SetMakedirs \/ SetExists \/ SetRemove \/ SetOpen \/ SetWrite \/ SetRun
    \/ ToggleMakedirs \/ ToggleExists \/ ToggleRemove \/ ToggleOpen
    \/ ToggleWrite
    \/ ClickAuto \/ ClickPick \/ ClickNotify
    \/ OnAutoBuild \/ OnPickBuild \/ OnNotifyBuild
    \/ Tick \/ Resume

Spec == Init /\ [][Next]_vars

\* get_profile on every shape of input: the tray starts on any cache files and
\* any daemon, then the timer ticks while the daemon changes.
InitGet ==
    /\ stateFile \in CacheInputs
    /\ lastFile \in CacheInputs
    /\ override \in {Absent, File(Str("performance"))}
    /\ silent = FALSE
    /\ live \in LiveVals
    /\ Constructed

NextGet == Tick \/ Resume \/ EnvLive

SpecGet == InitGet /\ [][NextGet]_vars

----------------------------------------------------------------------------
(* Vocabulary of the properties *)

Content(f) == Strip(f.data)

\* The file is present, readable and not blank.
Usable(f) == f.ex /\ f.ok /\ Content(f) # <<>>

\* The profile the preference chain names: state file, last-applied file,
\* live query, "balanced".
ExpectedProfile ==
    IF Usable(stateFile) THEN Content(stateFile)
    ELSE IF Usable(lastFile) THEN Content(lastFile)
    ELSE IF Strip(live.out) # <<>> THEN Strip(live.out)
    ELSE Str("balanced")

CurrentSnapshot == <<ExpectedProfile, ~override.ex, ~silent>>

\* A tick that ran to its `return True`.
TickDone == Tick /\ pc' = "idle"

\* A callback's build_menu ran to its end.
BuildDone == pc \in {"ss_ret", "tn_ret"} /\ pc' = "idle"

\* A step of the tray inside set_state / toggle_notifications.
SetStateStep == pc \in {"ss_makedirs", "ss_exists", "ss_remove", "ss_open",
                        "ss_write", "ss_run"} /\ pc' # pc

ToggleStep == pc \in {"tn_makedirs", "tn_exists", "tn_remove", "tn_open",
                      "tn_write"} /\ pc' # pc

PowerSaver == Str("power-saver")

----------------------------------------------------------------------------
(* C1 *)

----------------------------------------------------------------------------
(* C2 *)

\* C2: set_state("auto") that swallowed no exception returns with the override
\* file absent, whether or not it existed; none of its steps invokes
\* `powerprofilesctl set` or touches the silence, state or last-applied file.
C2_SetAuto ==
    /\ [](pc = "ss_ret" /\ mode = AUTO /\ ~caught => ~override.ex)
    /\ [](mode = AUTO => cmds = <<>>)
    /\ [][SetStateStep /\ mode = AUTO
            => /\ UNCHANGED <<silent, stateFile, lastFile, live>>
               /\ override' \in {override, Absent}]_vars

\* set_state("auto") has returned from a display drawn in manual mode, with
\* nobody else to remove the file.
C2_Witness ==
    /\ pc = "ss_ret" /\ mode = AUTO /\ ~caught
    /\ envN = 0 /\ shown[2] = FALSE
    /\ ~override.ex

----------------------------------------------------------------------------
(* C3 *)

\* C3: for a profile p, set_state(p) writes exactly p into the override file
\* (the file it opened, if it is still linked), invokes nothing before that
\* write is done, and when it swallowed no exception has invoked
\* `powerprofilesctl set p` exactly once.
C3_SetProfile ==
    /\ [][pc = "ss_write" /\ pc' = "ss_run" /\ override.ex
            => override' = File(mode)]_vars
    /\ [](pc = "ss_run" /\ override.ex => override = File(mode))
    /\ [](pc \in {"ss_makedirs", "ss_open", "ss_write", "ss_run"}
            => cmds = <<>>)
    /\ [](pc = "ss_ret" /\ mode \in PROFILES /\ ~caught => cmds = <<mode>>)

\* set_state("performance") has returned over an override that held another
\* profile.
C3_Witness ==
    /\ pc = "ss_ret" /\ mode = Str("performance") /\ ~caught
    /\ shown[2] = FALSE /\ envN = 0
    /\ override = File(mode)
    /\ cmds = <<mode>>

----------------------------------------------------------------------------
(* C4 *)

\* C4: every value the tray takes from is_auto (for the snapshot of a tick,
\* for the Auto Mode item of a rebuilt menu) is true exactly when the override
\* file does not exist, whatever the file holds, and is_auto is true once
\* set_state("auto") has returned without a swallowed exception.
C4_IsAuto ==
    /\ [][TickDone => last'[2] = ~override.ex]_vars
    /\ [][BuildDone => menu'.auto = ~override.ex]_vars
    /\ [](pc = "ss_ret" /\ mode = AUTO /\ ~caught => is_auto)

\* An empty override file (its write failed) was read as manual mode by a tick
\* and by a menu build.
C4_Witness ==
    /\ Idle
    /\ override = File(<<>>)
    /\ last # NoSnapshot /\ last[2] = FALSE
    /\ ~menu.auto

----------------------------------------------------------------------------
(* C5 *)

\* C5: every value the tray takes from notifications_enabled is true exactly
\* when the silence file does not exist; toggle_notifications(False) creates
\* the file, toggle_notifications(True) that swallowed no exception returns
\* with it absent, so that with nobody else touching the file
\* notifications_enabled() is then the argument of the call; no step of
\* toggle_notifications touches the override file or invokes a command.
C5_Notifications ==
    /\ [][TickDone => last'[3] = ~silent]_vars
    /\ [][BuildDone => menu'.notif = ~silent]_vars
    /\ [][pc = "tn_open" /\ pc' = "tn_write" => silent']_vars
    /\ [](pc = "tn_ret" /\ enable /\ ~caught => notifications_enabled)
    /\ [](pc = "tn_ret" /\ ~enable /\ ~caught /\ envN = 0
            => ~notifications_enabled)
    /\ [][ToggleStep => UNCHANGED <<override, cmds>>]_vars

\* toggle_notifications(False) has returned and the file is there.
C5_Witness == pc = "tn_ret" /\ ~enable /\ ~caught /\ silent /\ envN = 0

----------------------------------------------------------------------------
(* C6 *)

\* The scenario's second step, at the return of set_state: the first click is
\* on Power Saver, the label still reads "A: Balanced", nothing changed from
\* outside and no call failed.
PickedPowerSaver ==
    /\ pc = "ss_ret" /\ cb = "pick" /\ mode = PowerSaver /\ ~caught
    /\ envN = 0 /\ clickN = 1
    /\ label = <<"A", ": ", "Balanced">>

\* The scenario's third step, at the return of set_state: the second click is
\* on Auto Mode, from a manual display.
ReselectedAuto ==
    /\ pc = "ss_ret" /\ cb = "auto" /\ mode = AUTO /\ ~caught
    /\ envN = 0 /\ clickN = 2
    /\ label[1] = "M"

\* C6 as stated: after Power Saver is selected the label reads
\* "M: Power Saver".
C6_AsStated ==
    [][PickedPowerSaver /\ pc' = "idle"
         => label' = <<"M", ": ", "Power Saver">>]_vars

\* C6, amended: from no files and a daemon answering "balanced" the label is
\* "A: Balanced"; selecting Power Saver leaves the override file holding
\* "power-saver" and invokes the set command with "power-saver", and the label
\* becomes "M: " and the name of the profile the daemon then reports, which is
\* "Power Saver" when the daemon applied the command; re-selecting Auto Mode
\* removes the override file and the label becomes "A: " and the name of the
\* live-or-cached profile.
C6_Scenario ==
    /\ [](envN = 0 /\ clickN = 0 /\ ~override.ex
            => label = <<"A", ": ", "Balanced">>)
    /\ [](PickedPowerSaver
            => override = File(PowerSaver) /\ cmds = <<PowerSaver>>)
    /\ [][PickedPowerSaver /\ pc' = "idle"
            => /\ label' = <<"M", ": ">> \o ProfileName(Strip(live.out))
               /\ live = LiveOut(PowerSaver)
                    => label' = <<"M", ": ", "Power Saver">>]_vars
    /\ [](ReselectedAuto => ~override.ex)
    /\ [][ReselectedAuto /\ pc' = "idle"
            => label' = <<"A", ": ">> \o ProfileName(ExpectedProfile)]_vars

\* The scenario has run to its end with the daemon on power-saver.
C6_Witness ==
    /\ Idle
    /\ envN = 0 /\ clickN = 2
    /\ ~override.ex
    /\ label = <<"A", ": ", "Power Saver">>

----------------------------------------------------------------------------
(* C7 *)

\* C7: in every state another process can observe, the override file is
\* absent or holds exactly one of the three profile names.
C7_OverrideWhole == override.ex => override.data \in PROFILES

----------------------------------------------------------------------------
(* C8 *)

MenuConsistent ==
    /\ Cardinality(menu.picks) <= 1
    /\ \A m \in PROFILES :
          m \in menu.picks <=> (override.ex /\ ExpectedProfile = m)
    /\ menu.auto = ~override.ex

\* C8: when a menu callback or a tick has completed, at most one manual item
\* is checked, a manual item is checked exactly when the override file exists
\* and the item's profile is the current one, and Auto Mode is checked exactly
\* when the override file is absent.
C8_MenuMatchesState ==
    [][pc' = "idle" /\ pc # "uncaught" /\ envN' = envN
         => MenuConsistent']_vars

----------------------------------------------------------------------------
(* C9 *)

\* C9: a tick redraws (and remembers its snapshot) exactly when its snapshot
\* differs from the one the display was last drawn from, be it at startup, by
\* a callback or by a tick; after a redraw the remembered snapshot is the
\* one just computed.
C9_RedrawIffChanged ==
    [][TickDone
         => /\ (last' # last) <=> (CurrentSnapshot # shown)
            /\ (last' # last) => last' = CurrentSnapshot]_vars

----------------------------------------------------------------------------
(* C10 *)

\* C10: no exception ever leaves get_profile, set_state or
\* toggle_notifications, so none reaches the main loop from a tick or a
\* callback.
C10_NeverRaises == pc # "uncaught"

====
